---- MODULE Spec2Model ----
(***************************************************************************)
(* Bar-driven backtest of the three strategies of the repository          *)
(* (MACrossStrategy, RSIStrategy, MABOXBreakStrategy) as BacktestEngine    *)
(* runs them: one data feed, one strategy, the backtrader broker           *)
(* configured by run_backtest (cash, percentage commission, percentage     *)
(* slippage, market orders filled at the next bar's open).                 *)
(*                                                                         *)
(* Units.  Prices are whole price units.  A fill price is kept in 1/1000   *)
(* of a unit (slippage is given per mille), cash in 1/1000000 of a unit    *)
(* (commission is given per mille of a fill), so that all money            *)
(* arithmetic is exact.  Moving averages are compared through their       *)
(* window sums, RSI through the two smoothed averages scaled by the same   *)
(* power of the period.                                                    *)
(*                                                                         *)
(* One bar of the run is three kinds of step, in the order Cerebro runs    *)
(* them: AdvanceBar (the feed delivers the bar, the indicators advance,    *)
(* the broker works on the order submitted on the previous bar),           *)
(* NotifyOrder (one call of notify_order per queued status), and           *)
(* StrategyNext (one call of next()).                                      *)
(*                                                                         *)
(* Around the run: RunBacktest and CollectResults are the prologue and     *)
(* the epilogue of BacktestEngine.run_backtest on one engine instance;     *)
(* the analyzers and _collect_results are also run on their own on given   *)
(* equity curves and analyses; Download and LoadLocal are the calls of     *)
(* DataDownloader on the files of DATA_DIR.                                *)
(***************************************************************************)
EXTENDS Integers, Sequences, FiniteSets, TLC

VARIABLES
    strat,          \* strategy_class handed to run_backtest
    feed,           \* the data: [free |-> TRUE] (bars arrive unconstrained) or a fixed series
    cfg,            \* [comm, slip, broker]: commission, slippage (per mille), broker kind
    params,         \* strategy_params, with the defaults of the class for what is not given
    len,            \* len(self): bars delivered so far
    closes,         \* the last closes, newest last (the windows of the indicators)
    highs,          \* MABOXBreak: the last box_period highs
    lows,           \* MABOXBreak: the last box_period lows
    nzd,            \* MACross: sign of the last non-zero fast_ma - slow_ma
    crossover,      \* MACross: self.crossover[0]
    rsiUp,          \* RSI: smoothed average gain, scaled
    rsiDn,          \* RSI: smoothed average loss, scaled by the same factor
    cash,           \* broker cash, in 1/1000000 price unit
    position,       \* broker position size
    order,          \* the broker's open order: <<>> or <<[side, size, price, status, bar]>>
    notifs,         \* order statuses queued for notify_order, oldest first
    sorder,         \* MACross, RSI: self.order is set
    in_box,         \* MABOXBreak: self.in_box
    buy_signal_bar, \* MABOXBreak: self.buy_signal_bar, <<>> for None
    box_val,        \* MABOXBreak: <<>> or <<[high, low]>>: box_high_val, box_low_val
    pc,             \* "bar" | "notify" | "next" | "crashed"
    intents,        \* the order intents next() issued on the current bar
    lastFill,       \* the order the broker settled on the current bar: <<>> or <<Fill record>>
    outSeen,        \* history: a held bar since entry closed outside the recorded box
    nBuys,          \* history: buy intents issued so far
    lowSeen,        \* history: RSI was below oversold on an earlier bar of the run
    rejected,       \* history: the broker ended an order without filling it
    eng,            \* the BacktestEngine instance and the calls of run_backtest made on it
    stats,          \* the analyzers of a run and the summary _collect_results makes of them
    store           \* the DataDownloader: the files of DATA_DIR and the last call's outcome

vars == <<strat, feed, cfg, params, len, closes, highs, lows, nzd, crossover, rsiUp, rsiDn,
          cash, position, order, notifs, sorder, in_box, buy_signal_bar, box_val,
          pc, intents, lastFill, outSeen, nBuys, lowSeen, rejected, eng, stats, store>>

-----------------------------------------------------------------------------
(* Bounds of the model *)

MaxBars == 6
MaxPrice == 3
MaxCalls == 2
MaxCurve == 3
MaxTrades == 3

(* Parameters of the strategies (params of each class, set through        *)
(* strategy_params) and settings of the engine, the rates per mille        *)

fast_period == params.fast_period
slow_period == params.slow_period
rsi_period == params.rsi_period
oversold == params.oversold
overbought == params.overbought
ma_fast == params.ma_fast
ma_mid == params.ma_mid
ma_slow == params.ma_slow
box_period == params.box_period
stake == params.stake
DEFAULT_COMMISSION == 1
DEFAULT_SLIPPAGE == 1

\* self.buy() and self.sell() without a size trade the default sizer's one share
SizerStake == 1

Scale == 1000 * 1000

None == <<>>
Some(x) == <<x>>
Val(o) == o[1]

Max(a, b) == IF a >= b THEN a ELSE b
Min(a, b) == IF a <= b THEN a ELSE b
Sign(d) == IF d > 0 THEN 1 ELSE IF d < 0 THEN -1 ELSE 0

RECURSIVE Sum(_)
Sum(s) == IF s = <<>> THEN 0 ELSE Head(s) + Sum(Tail(s))

RECURSIVE Pow(_, _)
Pow(b, n) == IF n = 0 THEN 1 ELSE b * Pow(b, n - 1)

RECURSIVE SeqMax(_)
SeqMax(s) == IF Len(s) = 1 THEN s[1] ELSE Max(Head(s), SeqMax(Tail(s)))

RECURSIVE SeqMin(_)
SeqMin(s) == IF Len(s) = 1 THEN s[1] ELSE Min(Head(s), SeqMin(Tail(s)))

\* the last n elements of s (all of s when it is shorter)
Last(s, n) == IF Len(s) <= n THEN s ELSE SubSeq(s, Len(s) - n + 1, Len(s))

\* s without its newest element
Prev(s) == SubSeq(s, 1, Len(s) - 1)

-----------------------------------------------------------------------------
(* The data feed *)

MkBar(o, c) == [open |-> o, high |-> Max(o, c), low |-> Min(o, c), close |-> c]

BarSet == {MkBar(o, c) : o \in 1..MaxPrice, c \in 1..MaxPrice}

FreeFeed == [free |-> TRUE, bars |-> <<>>]

RunLength == IF feed.free THEN MaxBars ELSE Len(feed.bars)

NextBars == IF feed.free THEN BarSet ELSE {feed.bars[len + 1]}

-----------------------------------------------------------------------------
(* Indicators *)

\* the strategy's minimum period: the first bar on which next() is called
MinPeriod(s) ==
    CASE s = "ma_cross" -> Max(fast_period, slow_period) + 1
      [] s = "rsi" -> rsi_period + 1
      [] s = "ma_box_break" -> Max(Max(ma_fast, ma_mid), Max(ma_slow + 1, box_period))

\* how many closes the strategy's indicators look back on
KeepCloses(s) ==
    CASE s = "ma_cross" -> Max(fast_period, slow_period)
      [] s = "rsi" -> rsi_period + 1
      [] s = "ma_box_break" -> ma_slow + 1

\* SimpleMovingAverage(period) of the closes cs, times period
SmaSum(cs, period) == Sum(Last(cs, period))

\* fast_ma - slow_ma, times fast_period * slow_period
MaDiff(cs) == slow_period * SmaSum(cs, fast_period) - fast_period * SmaSum(cs, slow_period)

\* NonZeroDifference(fast_ma, slow_ma) on the bar that makes the closes cs
NzdNext(old, cs, n) ==
    IF n < slow_period THEN 0
    ELSE IF n = slow_period THEN Sign(MaDiff(cs))
    ELSE IF MaDiff(cs) # 0 THEN Sign(MaDiff(cs)) ELSE old

\* mutant: the side the fast MA is on, not the bar on which it changes sides
CrossOver_Level(old, cs, n) ==
    IF n <= slow_period THEN 0 ELSE Sign(MaDiff(cs))

\* CrossOver(fast_ma, slow_ma) on the bar that makes the closes cs: CrossUp - CrossDown
CrossOver(old, cs, n) ==
    IF n <= slow_period THEN 0
    ELSE IF old < 0 /\ MaDiff(cs) > 0 THEN 1
    ELSE IF old > 0 /\ MaDiff(cs) < 0 THEN -1
    ELSE 0

\* UpDay / DownDay of consecutive closes
UpDay(a, b) == Max(b - a, 0)
DownDay(a, b) == Max(a - b, 0)

RECURSIVE SumUp(_)
SumUp(cs) == IF Len(cs) < 2 THEN 0 ELSE UpDay(cs[1], cs[2]) + SumUp(Tail(cs))

RECURSIVE SumDown(_)
SumDown(cs) == IF Len(cs) < 2 THEN 0 ELSE DownDay(cs[1], cs[2]) + SumDown(Tail(cs))

\* SmoothedMovingAverage(rsi_period) of the gains (of the losses), times
\* rsi_period^(n - rsi_period): seeded with the plain average, then
\* prev * (1 - 1/period) + new * 1/period
Smma(old, cs, n, new, seed) ==
    IF n < rsi_period + 1 THEN 0
    ELSE IF n = rsi_period + 1 THEN seed
    ELSE (rsi_period - 1) * old + Pow(rsi_period, n - rsi_period - 1) * new

\* rsi[0] < level, rsi[0] > level, for rsi = 100 - 100 / (1 + up / dn), dn > 0
RsiBelow(up, dn, level) == (100 - level) * up < level * dn
RsiAbove(up, dn, level) == (100 - level) * up > level * dn

-----------------------------------------------------------------------------
(* The broker: cerebro.broker as run_backtest configures it.  Orders are   *)
(* market orders; an order submitted in next() is checked against cash at  *)
(* its creation price and then executed at the next bar's open, moved by   *)
(* the slippage but not out of the bar's range; a buy that cash does not   *)
(* cover ends with status Margin and changes nothing.                      *)

NoFill == <<>>

\* prices in 1/1000 unit: the open moved up (down) by the slippage, capped at the high (low)
SlipUp(pmax, price, slip) ==
    IF slip = 0 THEN price * 1000
    ELSE IF price * (1000 + slip) <= pmax * 1000 THEN price * (1000 + slip)
    ELSE pmax * 1000

SlipDown(pmin, price, slip) ==
    IF slip = 0 THEN price * 1000
    ELSE IF price * (1000 - slip) >= pmin * 1000 THEN price * (1000 - slip)
    ELSE pmin * 1000

FillPrice(o, b, slip) ==
    IF o.side = "buy" THEN SlipUp(b.high, b.open, slip) ELSE SlipDown(b.low, b.open, slip)

\* value plus commission of a buy, value minus commission of a sell, in 1/1000000 unit
BuyCost(size, pm, comm) == size * pm * (1000 + comm)
SellGain(size, pm, comm) == size * pm * (1000 - comm)

\* the check of a submitted order against cash, at the price it was created with
AcceptOk(o, csh, comm) ==
    o.side = "sell" \/ csh - BuyCost(o.size, o.price * 1000, comm) >= 0

\* mutant: the execution does not look at the cash
Execute_NoCashCheck(o, b, csh, pos, c) ==
    LET pm == FillPrice(o, b, c.slip) IN
    IF o.side = "buy"
    THEN [status |-> "Completed", cash |-> csh - BuyCost(o.size, pm, c.comm),
          position |-> pos + o.size, price |-> pm]
    ELSE [status |-> "Completed", cash |-> csh + SellGain(o.size, pm, c.comm),
          position |-> pos - o.size, price |-> pm]

\* the execution of an accepted order on bar b with cash csh and position pos
Execute(o, b, csh, pos, c) ==
    LET pm == FillPrice(o, b, c.slip) IN
    IF o.side = "buy"
    THEN IF csh - BuyCost(o.size, pm, c.comm) < 0
         THEN [status |-> "Margin", cash |-> csh, position |-> pos, price |-> pm]
         ELSE [status |-> "Completed", cash |-> csh - BuyCost(o.size, pm, c.comm),
               position |-> pos + o.size, price |-> pm]
    ELSE [status |-> "Completed", cash |-> csh + SellGain(o.size, pm, c.comm),
          position |-> pos - o.size, price |-> pm]

\* the record of what became of order o: its final status, the fill price of the
\* bar, and the cash and position the broker held before
Fill(o, st, pm, csh, pos) ==
    Some([status |-> st, side |-> o.side, size |-> o.size, price |-> pm,
          cash0 |-> csh, pos0 |-> pos])

\* what the broker may do with the open order on one bar.  The broker of
\* run_backtest ("back") settles every order on the bar after its submission;
\* a broker in general ("any") may also leave it open, accept it without
\* executing it, cancel it or reject it.
Progress(c, ord) ==
    IF c.broker = "back" \/ ord = None THEN {"exec"}
    ELSE {"hold", "exec", "cancel"}
         \cup (IF Val(ord).status = "Submitted" THEN {"accept", "reject"} ELSE {})

\* broker.next() on bar b: [cash, position, order, notes, fill]
BrokerNext(prog, ord, b, csh, pos, c) ==
    IF ord = None
    THEN [cash |-> csh, position |-> pos, order |-> None, notes |-> <<>>, fill |-> NoFill]
    ELSE LET o == Val(ord) IN
    CASE prog = "hold" ->
           [cash |-> csh, position |-> pos, order |-> ord, notes |-> <<>>, fill |-> NoFill]
      [] prog = "accept" ->
           [cash |-> csh, position |-> pos, order |-> Some([o EXCEPT !.status = "Accepted"]),
            notes |-> <<"Accepted">>, fill |-> NoFill]
      [] prog = "cancel" ->
           [cash |-> csh, position |-> pos, order |-> None, notes |-> <<"Canceled">>,
            fill |-> Fill(o, "Canceled", FillPrice(o, b, c.slip), csh, pos)]
      [] prog = "reject" ->
           [cash |-> csh, position |-> pos, order |-> None, notes |-> <<"Rejected">>,
            fill |-> Fill(o, "Rejected", FillPrice(o, b, c.slip), csh, pos)]
      [] prog = "exec" ->
           IF o.status = "Submitted" /\ ~AcceptOk(o, csh, c.comm)
           THEN [cash |-> csh, position |-> pos, order |-> None, notes |-> <<"Margin">>,
                 fill |-> Fill(o, "Margin", FillPrice(o, b, c.slip), csh, pos)]
           ELSE LET e == Execute(o, b, csh, pos, c) IN
                [cash |-> e.cash, position |-> e.position, order |-> None,
                 notes |-> (IF o.status = "Submitted" THEN <<"Accepted">> ELSE <<>>)
                           \o <<e.status>>,
                 fill |-> Fill(o, e.status, e.price, csh, pos)]

-----------------------------------------------------------------------------
(* The strategies.  next() of each returns what it changes:                *)
(* [intents, sorder, in_box, buy_signal_bar, box_val].                     *)

Buy(size) == [side |-> "buy", size |-> size]
Sell(size) == [side |-> "sell", size |-> size]

\* mutant: only Submitted leaves self.order as it is
NotifyOrderMA_ClearOnAccepted(status, so) ==
    IF status = "Submitted" THEN so ELSE FALSE

\* MACrossStrategy.notify_order, RSIStrategy.notify_order: the new self.order
NotifyOrderMA(status, so) ==
    IF status \in {"Submitted", "Accepted"} THEN so ELSE FALSE

\* mutant: a Margin notification leaves self.order set
NotifyOrderRSI_KeepOnMargin(status, so) ==
    IF status \in {"Submitted", "Accepted", "Margin"} THEN so ELSE FALSE

NotifyOrderRSI(status, so) ==
    IF status \in {"Submitted", "Accepted"} THEN so ELSE FALSE

\* MABOXBreakStrategy.notify_order prints the status
NotifyOrderBox(status, so) == so

\* mutant: the death cross sells whatever the position
MACrossNext_SellWhileFlat(so, pos, cross) ==
    IF so THEN [intents |-> <<>>, sorder |-> so]
    ELSE IF cross > 0 /\ pos = 0
         THEN [intents |-> <<Buy(SizerStake)>>, sorder |-> TRUE]
         ELSE IF cross < 0
              THEN [intents |-> <<Sell(SizerStake)>>, sorder |-> TRUE]
              ELSE [intents |-> <<>>, sorder |-> so]

\* MACrossStrategy.next
MACrossNext(so, pos, cross) ==
    IF so THEN [intents |-> <<>>, sorder |-> so]
    ELSE IF pos = 0
         THEN IF cross > 0
              THEN [intents |-> <<Buy(SizerStake)>>, sorder |-> TRUE]
              ELSE [intents |-> <<>>, sorder |-> so]
         ELSE IF cross < 0
              THEN [intents |-> <<Sell(SizerStake)>>, sorder |-> TRUE]
              ELSE [intents |-> <<>>, sorder |-> so]

\* mutant: buys below oversold whatever the position
RSINext_BuyWhileLong(so, pos, up, dn) ==
    IF so THEN [intents |-> <<>>, sorder |-> so]
    ELSE IF RsiBelow(up, dn, oversold)
         THEN [intents |-> <<Buy(SizerStake)>>, sorder |-> TRUE]
         ELSE IF pos # 0 /\ RsiAbove(up, dn, overbought)
              THEN [intents |-> <<Sell(SizerStake)>>, sorder |-> TRUE]
              ELSE [intents |-> <<>>, sorder |-> so]

\* RSIStrategy.next
RSINext(so, pos, up, dn) ==
    IF so THEN [intents |-> <<>>, sorder |-> so]
    ELSE IF pos = 0
         THEN IF RsiBelow(up, dn, oversold)
              THEN [intents |-> <<Buy(SizerStake)>>, sorder |-> TRUE]
              ELSE [intents |-> <<>>, sorder |-> so]
         ELSE IF RsiAbove(up, dn, overbought)
              THEN [intents |-> <<Sell(SizerStake)>>, sorder |-> TRUE]
              ELSE [intents |-> <<>>, sorder |-> so]

\* mutant: the previous close must be strictly below the slow MA
BoxEntrySignal_Strict(cs) ==
    /\ Len(cs) = ma_slow + 1
    /\ cs[Len(cs) - 1] * ma_slow < SmaSum(Prev(cs), ma_slow)
    /\ cs[Len(cs)] * ma_slow > SmaSum(cs, ma_slow)
    /\ SmaSum(cs, ma_slow) - SmaSum(Prev(cs), ma_slow) > 0

\* MABOXBreak: close[-1] <= ma60[-1] and close[0] > ma60[0] and ma60_slope[0] > 0,
\* on the last ma_slow + 1 closes cs
BoxEntrySignal(cs) ==
    /\ Len(cs) = ma_slow + 1
    /\ cs[Len(cs) - 1] * ma_slow <= SmaSum(Prev(cs), ma_slow)
    /\ cs[Len(cs)] * ma_slow > SmaSum(cs, ma_slow)
    /\ SmaSum(cs, ma_slow) - SmaSum(Prev(cs), ma_slow) > 0

\* mutant: all of the cash, not 95% of it
BuySize_NoReserve(csh, price, stk) == ((csh \div (Scale * price)) \div stk) * stk

\* MABOXBreak: int(cash * 0.95 // price // stake) * stake, cash in 1/1000000 unit
BuySize(csh, price, stk) == (((19 * csh) \div (20 * Scale * price)) \div stk) * stk

\* mutant: ma5[0] <= ma10[0]
BoxDeathCross_OrEqual(cs) == ma_mid * SmaSum(cs, ma_fast) <= ma_fast * SmaSum(cs, ma_mid)

\* MABOXBreak: ma5[0] < ma10[0]
BoxDeathCross(cs) == ma_mid * SmaSum(cs, ma_fast) < ma_fast * SmaSum(cs, ma_mid)

\* MABOXBreak: the close c is outside the recorded box
OutsideBox(c, box) == c < box.low \/ c > box.high

\* mutant: a close back inside the box restores the protection
BoxInBox_Relatch(inb, c, box) == ~OutsideBox(c, box)

\* MABOXBreak: self.in_box after the test of the close against the recorded box
BoxInBox(inb, c, box) == IF OutsideBox(c, box) THEN FALSE ELSE inb

\* MABOXBreakStrategy.next
BoxNext(pos, cs, hs, ls, csh, stk, n, inb, bsb, box) ==
    LET price == cs[Len(cs)] IN
    IF pos = 0
    THEN IF BoxEntrySignal(cs)
         THEN LET size == BuySize(csh, price, stk) IN
              IF size > 0
              THEN [intents |-> <<Buy(size)>>, in_box |-> TRUE, buy_signal_bar |-> Some(n),
                    box_val |-> Some([high |-> SeqMax(hs), low |-> SeqMin(ls)])]
              ELSE [intents |-> <<>>, in_box |-> inb, buy_signal_bar |-> Some(n),
                    box_val |-> Some([high |-> SeqMax(hs), low |-> SeqMin(ls)])]
         ELSE [intents |-> <<>>, in_box |-> inb, buy_signal_bar |-> bsb, box_val |-> box]
    ELSE LET inb1 == BoxInBox(inb, price, Val(box)) IN
         IF ~inb1 /\ BoxDeathCross(cs)
         THEN [intents |-> <<Sell(pos)>>, in_box |-> FALSE, buy_signal_bar |-> None,
               box_val |-> box]
         ELSE IF bsb # None
              THEN [intents |-> <<>>, in_box |-> BoxInBox(inb1, price, Val(box)),
                    buy_signal_bar |-> bsb, box_val |-> box]
              ELSE [intents |-> <<>>, in_box |-> inb1, buy_signal_bar |-> bsb,
                    box_val |-> box]

-----------------------------------------------------------------------------
(* The analyzers run_backtest adds and the summary _collect_results makes  *)
(* of what they return.  A percentage n / d * 100 is kept as the pair      *)
(* [num |-> n, den |-> d]; percentages are compared exactly.               *)

\* a / b < c / d for a, c >= 0 and b, d > 0, without forming a product
RECURSIVE FracLess(_, _, _, _)
FracLess(a, b, c, d) ==
    IF a \div b # c \div d THEN a \div b < c \div d
    ELSE IF c % d = 0 THEN FALSE
    ELSE IF a % b = 0 THEN TRUE
    ELSE FracLess(d, c % d, b, a % b)

FracEq(a, b, c, d) == ~FracLess(a, b, c, d) /\ ~FracLess(c, d, a, b)

Pct(n, d) == [num |-> n, den |-> d]

\* a dict: a function on its keys; d.get(k, dflt)
EmptyDict == <<>>
Get(d, k, dflt) == IF k \in DOMAIN d THEN d[k] ELSE dflt

\* bt.analyzers.DrawDown: the highest value so far and the largest
\* (highest - value) / highest * 100 so far, before the first bar
DrawDownStart == [maxvalue |-> 0, max |-> Pct(0, 1)]

\* mutant: the decline is measured from the first value, not from the highest
DrawDownNext_FromFirst(dd, value) ==
    LET top == IF dd.maxvalue = 0 THEN value ELSE dd.maxvalue
        down == IF top > value THEN top - value ELSE 0
    IN  [maxvalue |-> top,
         max |-> IF FracLess(dd.max.num, dd.max.den, down, top) THEN Pct(down, top)
                 ELSE dd.max]

\* bt.analyzers.DrawDown on one bar with account value > 0
DrawDownNext(dd, value) ==
    LET top == Max(dd.maxvalue, value)
        down == top - value
    IN  [maxvalue |-> top,
         max |-> IF FracLess(dd.max.num, dd.max.den, down, top) THEN Pct(down, top)
                 ELSE dd.max]

RECURSIVE DrawDownOver(_, _)
DrawDownOver(dd, curve) ==
    IF curve = <<>> THEN dd ELSE DrawDownOver(DrawDownNext(dd, Head(curve)), Tail(curve))

\* drawdown.get_analysis()
DrawDownAnalysis(dd) == [max |-> [drawdown |-> dd.max]]

\* bt.analyzers.SharpeRatio.get_analysis(), each bar taken as one period of the
\* analyzer: the returns are those of each bar on the value before it, the first
\* on the starting value, which is the value of the first bar; the ratio is a
\* function of them, None when there are fewer than two or they are all the same
SharpeAnalysis(curve) ==
    LET before(i) == IF i = 1 THEN curve[1] ELSE curve[i - 1]
        rets == {<<before(i), curve[i]>> : i \in 1..Len(curve)}
    IN  [sharperatio |->
            IF Len(curve) < 2
               \/ \A x \in rets, y \in rets : FracEq(x[2], x[1], y[2], y[1])
            THEN None ELSE <<"ratio", curve>>]

\* bt.analyzers.TradeAnalyzer over the settled orders: a trade opens with a buy
\* filled into a flat position and closes with the sell that makes it flat; it
\* is won when its profit after commission is not negative
RECURSIVE TradeCount(_, _, _)
TradeCount(fills, comm, t) ==
    IF fills = <<>> THEN t
    ELSE LET f == Head(fills) IN
         TradeCount(Tail(fills), comm,
            IF f.status # "Completed" THEN t
            ELSE IF f.side = "buy"
                 THEN [t EXCEPT !.total = @ + 1, !.cost = BuyCost(f.size, f.price, comm)]
                 ELSE LET won == SellGain(f.size, f.price, comm) - t.cost >= 0 IN
                      [t EXCEPT !.closed = @ + 1,
                                !.won = IF won THEN @ + 1 ELSE @,
                                !.lost = IF won THEN @ ELSE @ + 1])

\* trades.get_analysis(): won and lost appear with the first closed trade
TradeAnalysis(fills, comm) ==
    LET t == TradeCount(fills, comm, [total |-> 0, closed |-> 0, won |-> 0, lost |-> 0,
                                      cost |-> 0])
    IN  IF t.closed = 0 THEN [total |-> [total |-> t.total]]
        ELSE [total |-> [total |-> t.total], won |-> [total |-> t.won],
              lost |-> [total |-> t.lost]]

\* mutant: the win rate divides by the total without the guard of max(total, 1)
WinRate_Unguarded(trades) ==
    Pct(Get(Get(trades, "won", EmptyDict), "total", 0),
        Get(Get(trades, "total", EmptyDict), "total", 1))

\* _collect_results: won / max(total, 1) * 100
WinRate(trades) ==
    Pct(Get(Get(trades, "won", EmptyDict), "total", 0),
        Max(Get(Get(trades, "total", EmptyDict), "total", 1), 1))

\* BacktestEngine._collect_results
CollectResultsOf(sharpe_ratio, drawdown, trades, initial_value, final_value, symbol) ==
    [symbol |-> symbol,
     initial_value |-> initial_value,
     final_value |-> final_value,
     total_return |-> Pct(final_value - initial_value, initial_value),
     sharpe_ratio |-> Get(sharpe_ratio, "sharperatio", 0),
     max_drawdown |-> Get(Get(drawdown, "max", EmptyDict), "drawdown", 0),
     total_trades |-> Get(Get(trades, "total", EmptyDict), "total", 0),
     win_trades |-> Get(Get(trades, "won", EmptyDict), "total", 0),
     loss_trades |-> Get(Get(trades, "lost", EmptyDict), "total", 0),
     win_rate |-> WinRate(trades)]

-----------------------------------------------------------------------------
(* The run *)

Strategies == {"ma_cross", "rsi", "ma_box_break"}

\* run_backtest's broker settings, and those of the batch script (no commission, no slippage)
EngineCfg == [comm |-> DEFAULT_COMMISSION, slip |-> DEFAULT_SLIPPAGE, broker |-> "back"]
BatchCfg == [comm |-> 0, slip |-> 0, broker |-> "back"]

\* a run outside run_backtest keeps no record of its bars; no analyzer is looked
\* at and no file is touched
NoEngine == [track |-> FALSE]
NoStats == [phase |-> "off"]
NoStore == [phase |-> "off"]

\* what a bar leaves for the analyzers: the order the broker settled on it, the
\* value of the account at its close (broker.getvalue(), in 1/1000000 unit)
\* and the intents of next()
BarRecord(fill, csh, pos, close) ==
    [fill |-> fill, equity |-> csh + pos * close * Scale, intents |-> <<>>]

\* the state after construction, for strategy s on data f with cash c
Start(s, f, c, k, p) ==
    /\ strat = s /\ feed = f /\ cfg = c /\ cash = k /\ params = p
    /\ len = 0 /\ closes = <<>> /\ highs = <<>> /\ lows = <<>>
    /\ nzd = 0 /\ crossover = 0 /\ rsiUp = 0 /\ rsiDn = 0
    /\ position = 0 /\ order = None /\ notifs = <<>>
    /\ sorder = FALSE /\ in_box = FALSE /\ buy_signal_bar = None /\ box_val = None
    /\ pc = "bar" /\ intents = <<>> /\ lastFill = NoFill
    /\ outSeen = FALSE /\ nBuys = 0 /\ lowSeen = FALSE /\ rejected = FALSE
    /\ eng = NoEngine /\ stats = NoStats /\ store = NoStore

InitCash == {0, 2 * Scale, 7 * Scale}

\* the parameters of the runs on unconstrained bars
FreeParams ==
    [fast_period |-> 1, slow_period |-> 2,
     rsi_period |-> 2, oversold |-> 30, overbought |-> 70,
     ma_fast |-> 1, ma_mid |-> 2, ma_slow |-> 3, box_period |-> 2, stake |-> 2]

Init ==
    \E s \in Strategies, c \in {EngineCfg, BatchCfg}, k \in InitCash :
        Start(s, FreeFeed, c, k, FreeParams)

\* Runs on given data.  The rows carry a close only: _create_data_feed fills the
\* open, high and low it does not find with the close.
CloseBars(cs) == [i \in 1..Len(cs) |-> MkBar(cs[i], cs[i])]
GivenFeed(cs) == [free |-> FALSE, bars |-> CloseBars(cs)]

\* the elements of a set of prices, highest first
RECURSIVE Falling(_)
Falling(S) ==
    IF S = {} THEN <<>>
    ELSE LET m == CHOOSE x \in S : \A y \in S : y <= x IN <<m>> \o Falling(S \ {m})

FeedCash == {2 * Scale, 20 * Scale, 100 * Scale}

\* MACross with fast 2, slow 4 on the closes of the scenario, and on the same
\* closes after a bar that puts the fast MA below the slow MA first
ScenarioCloses == <<10, 10, 10, 12, 14, 16, 14, 12, 10, 8>>
MACrossFeeds == {GivenFeed(ScenarioCloses), GivenFeed(<<12>> \o ScenarioCloses)}
MACrossRuns ==
    {[strat |-> "ma_cross", feed |-> f, cfg |-> c, cash |-> k,
      params |-> [FreeParams EXCEPT !.fast_period = 2, !.slow_period = 4]] :
        f \in MACrossFeeds, c \in {EngineCfg, BatchCfg}, k \in FeedCash}

\* RSI on every strictly falling series of closes with at least rsi_period + 1 bars
FallingFeeds(p) ==
    {GivenFeed(Falling(S)) : S \in {T \in SUBSET (1..(MaxPrice + 2)) : Cardinality(T) > p}}
RSIRunsOf(p) ==
    {[strat |-> "rsi", feed |-> f, cfg |-> c, cash |-> k,
      params |-> [FreeParams EXCEPT !.rsi_period = p]] :
        f \in FallingFeeds(p), c \in {EngineCfg, BatchCfg}, k \in FeedCash}
RSIRuns == RSIRunsOf(2) \cup RSIRunsOf(3)

\* MABOXBreak on a series that breaks above its slow MA on the fourth bar at
\* price q + 1, for a range of cash and lot sizes
SizingCash == {1, 3 * Scale, 20 * Scale, 21052631, 21052632, 40 * Scale, 100 * Scale}
BreakFeeds == {GivenFeed(<<q, q, q, q + 1, q + 1, q>>) : q \in 1..(MaxPrice + 2)}
BoxRuns ==
    {[strat |-> "ma_box_break", feed |-> f, cfg |-> c, cash |-> k,
      params |-> [FreeParams EXCEPT !.stake = st]] :
        f \in BreakFeeds, c \in {EngineCfg, BatchCfg}, k \in SizingCash, st \in 1..3}

InitFeed ==
    \E r \in MACrossRuns \cup RSIRuns \cup BoxRuns :
        Start(r.strat, r.feed, r.cfg, r.cash, r.params)

\* MACross and RSI with a broker that may take any number of bars over an order
\* and may end it with any of the statuses notify_order tells apart
OpenCfg == [comm |-> DEFAULT_COMMISSION, slip |-> DEFAULT_SLIPPAGE, broker |-> "any"]

InitOrd ==
    \E s \in {"ma_cross", "rsi"}, k \in InitCash :
        Start(s, FreeFeed, OpenCfg, k, FreeParams)

\* RSI with the thresholds the command line gives: parse_param_value turns each
\* "key=value" into a number and run_backtest hands them to addstrategy as they are
Thresholds == {<<30, 70>>, <<70, 30>>, <<50, 50>>}
InitParams ==
    \E t \in Thresholds, c \in {EngineCfg, BatchCfg}, k \in InitCash :
        Start("rsi", FreeFeed, c, k,
              [FreeParams EXCEPT !.oversold = t[1], !.overbought = t[2]])

\* BacktestEngine.__init__, and the data d the caller holds
NotCalled == <<"not called">>
NewEngine(k, c, d) ==
    [track |-> TRUE, cash |-> k, commission |-> c, cerebro |-> FALSE,
     results |-> EmptyDict, ret |-> NotCalled, data |-> d, arg |-> NotCalled,
     calls |-> 0, initial_value |-> 0, trace |-> <<>>, runs |-> <<>>]

EmptyFeed == GivenFeed(<<>>)

\* mutant: the data is never taken for empty
DataEmpty_Never(d) == FALSE

\* data.empty
DataEmpty(d) == Len(d.bars) = 0

\* mutant: the Cerebro of the previous call, with its broker, is used again
NewBroker_Reused(k) ==
    IF eng.cerebro THEN [cash |-> cash, position |-> position, order |-> order]
    ELSE [cash |-> k, position |-> 0, order |-> None]

\* bt.Cerebro() and broker.setcash(self.cash): a new broker
NewBroker(k) == [cash |-> k, position |-> 0, order |-> None]

\* the parameters run_backtest gives the strategy of one call
EngineRuns ==
    {[r EXCEPT !.cfg = [comm |-> r.cfg.comm, slip |-> DEFAULT_SLIPPAGE, broker |-> "back"]] :
        r \in MACrossRuns \cup RSIRuns \cup BoxRuns}

\* the engine constructed, run_backtest not called yet
InitEngine ==
    \E r \in EngineRuns :
        /\ strat = r.strat /\ params = r.params /\ cfg = r.cfg
        /\ eng = NewEngine(r.cash, r.cfg.comm, r.feed)
        /\ feed = EmptyFeed /\ cash = 0 /\ position = 0 /\ order = None
        /\ len = 0 /\ closes = <<>> /\ highs = <<>> /\ lows = <<>>
        /\ nzd = 0 /\ crossover = 0 /\ rsiUp = 0 /\ rsiDn = 0 /\ notifs = <<>>
        /\ sorder = FALSE /\ in_box = FALSE /\ buy_signal_bar = None /\ box_val = None
        /\ pc = "idle" /\ intents = <<>> /\ lastFill = NoFill
        /\ outSeen = FALSE /\ nBuys = 0 /\ lowSeen = FALSE /\ rejected = FALSE
        /\ stats = NoStats /\ store = NoStore

\* run_backtest is called with the caller's data or with an empty frame: the
\* empty frame returns {} at once; otherwise a new Cerebro, broker, data feed,
\* strategy and analyzers are made
RunBacktest ==
    /\ pc = "idle"
    /\ eng.calls < MaxCalls
    /\ \E d \in {eng.data, EmptyFeed} :
         IF DataEmpty(d)
         THEN /\ eng' = [eng EXCEPT !.calls = @ + 1, !.arg = d, !.ret = EmptyDict]
              /\ UNCHANGED <<feed, cfg, len, closes, highs, lows, nzd, crossover, rsiUp,
                             rsiDn, cash, position, order, notifs, sorder, in_box,
                             buy_signal_bar, box_val, pc, intents, lastFill, outSeen,
                             nBuys, lowSeen, rejected>>
         ELSE LET b == NewBroker(eng.cash) IN
              /\ eng' = [eng EXCEPT !.calls = @ + 1, !.arg = d, !.cerebro = TRUE,
                                    !.initial_value = b.cash, !.trace = <<>>]
              /\ feed' = d
              /\ cfg' = [comm |-> eng.commission, slip |-> DEFAULT_SLIPPAGE,
                         broker |-> "back"]
              /\ cash' = b.cash /\ position' = b.position /\ order' = b.order
              /\ len' = 0 /\ closes' = <<>> /\ highs' = <<>> /\ lows' = <<>>
              /\ nzd' = 0 /\ crossover' = 0 /\ rsiUp' = 0 /\ rsiDn' = 0
              /\ notifs' = <<>> /\ sorder' = FALSE /\ in_box' = FALSE
              /\ buy_signal_bar' = None /\ box_val' = None
              /\ pc' = "bar" /\ intents' = <<>> /\ lastFill' = NoFill
              /\ outSeen' = FALSE /\ nBuys' = 0 /\ lowSeen' = FALSE /\ rejected' = FALSE
    /\ UNCHANGED <<strat, params, stats, store>>

\* the settled orders and the account values of the bars of a run
RECURSIVE FillsOf(_)
FillsOf(trace) ==
    IF trace = <<>> THEN <<>> ELSE Head(trace).fill \o FillsOf(Tail(trace))

CurveOf(trace) == [i \in 1..Len(trace) |-> trace[i].equity]

\* cerebro.run() has returned: the summary is made, kept in self.results and returned
CollectResults ==
    /\ pc = "bar"
    /\ eng.track
    /\ len = RunLength
    /\ LET curve == CurveOf(eng.trace)
           res == CollectResultsOf(SharpeAnalysis(curve),
                                   DrawDownAnalysis(DrawDownOver(DrawDownStart, curve)),
                                   TradeAnalysis(FillsOf(eng.trace), cfg.comm),
                                   eng.initial_value,
                                   cash + position * closes[Len(closes)] * Scale,
                                   "UNKNOWN")
       IN  eng' = [eng EXCEPT !.results = res, !.ret = res,
                              !.runs = Append(@, [trace |-> eng.trace, results |-> res])]
    /\ pc' = "idle"
    /\ UNCHANGED <<strat, feed, cfg, params, len, closes, highs, lows, nzd, crossover,
                   rsiUp, rsiDn, cash, position, order, notifs, sorder, in_box,
                   buy_signal_bar, box_val, intents, lastFill, outSeen, nBuys, lowSeen,
                   rejected, stats, store>>

-----------------------------------------------------------------------------
(* DataDownloader on the files of DATA_DIR.  A string is the sequence of   *)
(* its parts, "_" a part of its own, so that DATA_FILE_FORMAT is the       *)
(* concatenation it is.  A frame is the sequence of its rows; a datetime   *)
(* is a day with the type it is held in: "str" (the text the provider      *)
(* gave), "ts" (a Timestamp) or "text" (a field of a csv file).            *)

MinutePeriods == {<<"1min">>, <<"5min">>, <<"10min">>, <<"15min">>, <<"30min">>, <<"60min">>}

Symbols == {<<"A">>, <<"A", "_", "B">>}
Periods == {<<"daily">>, <<"B", "_", "daily">>, <<"5min">>}
Keys == [symbol : Symbols, period : Periods, start_date : {<<"s">>}, end_date : {<<"e">>}]

\* DATA_FILE_FORMAT.format(symbol=..., period=..., start_date=..., end_date=...)
FileName(k) ==
    k.symbol \o <<"_">> \o k.period \o <<"_">> \o k.start_date \o <<"_">> \o k.end_date
             \o <<".csv">>

EmptyFrame == <<>>
Row(type, day, close) == [datetime |-> <<type, day>>, close |-> close]

\* what the provider holds for a request: rows, newest first
ProviderRows == {<<[day |-> 2, close |-> 1], [day |-> 1, close |-> 2]>>, <<[day |-> 1, close |-> 1]>>}
Outcomes == {[kind |-> "fail"], [kind |-> "none"]} \cup {[kind |-> "rows", rows |-> r] : r \in ProviderRows}

\* the frame the provider call returns: _download_minute_data_gm makes
\* Timestamps of bob, pro.stk_mins and pro.daily give the time as text; each
\* of the three catches the exception of its provider and returns an empty frame
ProviderFrame(gm, k, out) ==
    IF out.kind # "rows" THEN EmptyFrame
    ELSE LET type == IF k.period \in MinutePeriods /\ gm THEN "ts" ELSE "str"
         IN  [i \in 1..Len(out.rows) |-> Row(type, out.rows[i].day, out.rows[i].close)]

\* df.sort_values('datetime'): the rows by day, earliest first
RECURSIVE SortValues(_)
SortValues(df) ==
    IF df = <<>> THEN <<>>
    ELSE LET i == CHOOSE j \in 1..Len(df) :
                      \A m \in 1..Len(df) :
                          \/ df[j].datetime[2] < df[m].datetime[2]
                          \/ (df[j].datetime[2] = df[m].datetime[2] /\ j <= m)
         IN  <<df[i]>> \o SortValues([m \in 1..(Len(df) - 1) |->
                                          IF m < i THEN df[m] ELSE df[m + 1]])

\* _clean_data: after the rename no column is called trade_date or trade_time,
\* so the datetime column keeps the type it came with; sorted, made the index
CleanData(df) == SortValues(df)

\* df.to_csv(filepath): every field is written as text
ToCsv(df) ==
    [i \in 1..Len(df) |-> [datetime |-> <<"text", df[i].datetime[2]>>,
                           close |-> <<"text", df[i].close>>]]

\* pd.read_csv(filepath, index_col=0, parse_dates=True): the index is parsed
\* to Timestamps, the other fields to numbers
ReadCsv(file) ==
    [i \in 1..Len(file) |-> Row("ts", file[i].datetime[2], file[i].close[2])]

\* DataDownloader.__init__ with TUSHARE_TOKEN set; gm: the gm api and its token are there
NewStore(gm) ==
    [phase |-> "on", gm |-> gm, files |-> <<>>, saved |-> <<>>,
     ret |-> [kind |-> "none"], op |-> [name |-> "none"]]

InitData ==
    /\ \E gm \in BOOLEAN : store = NewStore(gm)
    /\ strat = "ma_cross" /\ params = FreeParams /\ cfg = EngineCfg
    /\ eng = NoEngine /\ stats = NoStats
    /\ feed = EmptyFeed /\ cash = 0 /\ position = 0 /\ order = None
    /\ len = 0 /\ closes = <<>> /\ highs = <<>> /\ lows = <<>>
    /\ nzd = 0 /\ crossover = 0 /\ rsiUp = 0 /\ rsiDn = 0 /\ notifs = <<>>
    /\ sorder = FALSE /\ in_box = FALSE /\ buy_signal_bar = None /\ box_val = None
    /\ pc = "data" /\ intents = <<>> /\ lastFill = NoFill
    /\ outSeen = FALSE /\ nBuys = 0 /\ lowSeen = FALSE /\ rejected = FALSE

\* download_stock_data(symbol, period, start_date, end_date, save): a failure
\* of the provider and an empty answer both return an empty frame; rows are
\* cleaned, written under the file name of the key when save is set, and returned
Download ==
    /\ pc = "data"
    /\ \E k \in Keys, out \in Outcomes, save \in BOOLEAN :
         LET df == ProviderFrame(store.gm, k, out)
             op == [name |-> "download", key |-> k, outcome |-> out.kind]
         IN  IF df = EmptyFrame
             THEN store' = [store EXCEPT !.ret = [kind |-> "frame", df |-> EmptyFrame],
                                         !.op = op]
             ELSE LET clean == CleanData(df) IN
                  store' = [store EXCEPT
                      !.ret = [kind |-> "frame", df |-> clean],
                      !.op = op,
                      !.files = IF save THEN (FileName(k) :> ToCsv(clean)) @@ @ ELSE @,
                      !.saved = IF save THEN (k :> clean) @@ @ ELSE @]
    /\ UNCHANGED <<strat, feed, cfg, params, len, closes, highs, lows, nzd, crossover,
                   rsiUp, rsiDn, cash, position, order, notifs, sorder, in_box,
                   buy_signal_bar, box_val, pc, intents, lastFill, outSeen, nBuys,
                   lowSeen, rejected, eng, stats>>

\* load_local_data(symbol, period, start_date, end_date)
LoadLocal ==
    /\ pc = "data"
    /\ \E k \in Keys :
         store' = [store EXCEPT
             !.ret = [kind |-> "frame",
                      df |-> IF FileName(k) \in DOMAIN store.files
                             THEN ReadCsv(store.files[FileName(k)]) ELSE EmptyFrame],
             !.op = [name |-> "load", key |-> k, outcome |-> "none"]]
    /\ UNCHANGED <<strat, feed, cfg, params, len, closes, highs, lows, nzd, crossover,
                   rsiUp, rsiDn, cash, position, order, notifs, sorder, in_box,
                   buy_signal_bar, box_val, pc, intents, lastFill, outSeen, nBuys,
                   lowSeen, rejected, eng, stats>>

-----------------------------------------------------------------------------
(* The analyzers and _collect_results as functions of what a run leaves:   *)
(* the account values of its bars and the counts of its trades.            *)

\* the account values of the bars of a run
ClaimCurve == <<100, 120, 90, 95, 130, 80>>
RECURSIVE CurvesOf(_)
CurvesOf(n) ==
    IF n = 0 THEN {<<>>}
    ELSE {Append(c, v) : c \in CurvesOf(n - 1), v \in 1..MaxPrice}
Curves == {ClaimCurve} \cup UNION {CurvesOf(n) : n \in 1..MaxCurve}

\* trades.get_analysis() of a run with t trades opened, w of them closed and
\* won, l closed and lost: total is there from the start, won and lost appear
\* with the first closed trade
TradeDict(t, w, l) ==
    IF w + l = 0 THEN [total |-> [total |-> t]]
    ELSE [total |-> [total |-> t], won |-> [total |-> w], lost |-> [total |-> l]]
TradeCounts ==
    {c \in [total : 0..MaxTrades, won : 0..MaxTrades, lost : 0..MaxTrades] :
        c.won + c.lost <= c.total}

InitStats ==
    /\ \E curve \in Curves, c \in TradeCounts :
          stats = [phase |-> "on", curve |-> curve, counts |-> c,
                   trades |-> TradeDict(c.total, c.won, c.lost),
                   step |-> "run", i |-> 0, dd |-> DrawDownStart,
                   results |-> EmptyDict, printed |-> {}]
    /\ strat = "ma_cross" /\ params = FreeParams /\ cfg = EngineCfg
    /\ eng = NoEngine /\ store = NoStore
    /\ feed = EmptyFeed /\ cash = 0 /\ position = 0 /\ order = None
    /\ len = 0 /\ closes = <<>> /\ highs = <<>> /\ lows = <<>>
    /\ nzd = 0 /\ crossover = 0 /\ rsiUp = 0 /\ rsiDn = 0 /\ notifs = <<>>
    /\ sorder = FALSE /\ in_box = FALSE /\ buy_signal_bar = None /\ box_val = None
    /\ pc = "stats" /\ intents = <<>> /\ lastFill = NoFill
    /\ outSeen = FALSE /\ nBuys = 0 /\ lowSeen = FALSE /\ rejected = FALSE

\* the DrawDown analyzer sees the account value of the next bar
AnalyzerNext ==
    /\ pc = "stats" /\ stats.step = "run"
    /\ stats.i < Len(stats.curve)
    /\ stats' = [stats EXCEPT !.i = @ + 1,
                               !.dd = DrawDownNext(@, stats.curve[stats.i + 1])]
    /\ UNCHANGED <<strat, feed, cfg, params, len, closes, highs, lows, nzd, crossover,
                   rsiUp, rsiDn, cash, position, order, notifs, sorder, in_box,
                   buy_signal_bar, box_val, pc, intents, lastFill, outSeen, nBuys,
                   lowSeen, rejected, eng, store>>

\* _collect_results after the last bar
CollectStats ==
    /\ pc = "stats" /\ stats.step = "run"
    /\ stats.i = Len(stats.curve)
    /\ stats' = [stats EXCEPT
            !.step = "collected",
            !.results = CollectResultsOf(SharpeAnalysis(stats.curve),
                                         DrawDownAnalysis(stats.dd), stats.trades,
                                         Head(stats.curve),
                                         stats.curve[Len(stats.curve)], "UNKNOWN")]
    /\ UNCHANGED <<strat, feed, cfg, params, len, closes, highs, lows, nzd, crossover,
                   rsiUp, rsiDn, cash, position, order, notifs, sorder, in_box,
                   buy_signal_bar, box_val, pc, intents, lastFill, outSeen, nBuys,
                   lowSeen, rejected, eng, store>>

\* mutant: the line of the Sharpe ratio is printed whatever the value is
PrintedLines_Always(results) ==
    {"symbol", "initial_value", "final_value", "total_return", "sharpe_ratio",
     "max_drawdown", "total_trades", "win_rate"}

\* the lines print_results prints: the Sharpe ratio only when it is not None
PrintedLines(results) ==
    {"symbol", "initial_value", "final_value", "total_return", "max_drawdown",
     "total_trades", "win_rate"}
        \cup (IF results.sharpe_ratio # None THEN {"sharpe_ratio"} ELSE {})

\* what print_results prints for the stored results: one line that no results
\* are available when they are empty, the lines of the summary otherwise
PrintResultsOf(results) ==
    IF DOMAIN results = {} THEN {"no_results"} ELSE PrintedLines(results)

\* print_results
PrintResults ==
    /\ pc = "stats" /\ stats.step = "collected"
    /\ stats' = [stats EXCEPT !.step = "printed", !.printed = PrintedLines(stats.results)]
    /\ UNCHANGED <<strat, feed, cfg, params, len, closes, highs, lows, nzd, crossover,
                   rsiUp, rsiDn, cash, position, order, notifs, sorder, in_box,
                   buy_signal_bar, box_val, pc, intents, lastFill, outSeen, nBuys,
                   lowSeen, rejected, eng, store>>

AfterNotify(q, n) ==
    IF q # <<>> THEN "notify" ELSE IF n >= MinPeriod(strat) THEN "next" ELSE "bar"

\* the feed delivers bar b: indicators advance, the broker works on the open order
AdvanceBar ==
    /\ pc = "bar"
    /\ len < RunLength
    /\ \E b \in NextBars, prog \in Progress(cfg, order) :
        LET n == len + 1
            cs == Last(Append(closes, b.close), KeepCloses(strat))
            last == IF closes = <<>> THEN b.close ELSE closes[Len(closes)]
            br == BrokerNext(prog, order, b, cash, position, cfg)
            q == notifs \o br.notes
            \* RSI divides the average gain by the average loss
            crash == strat = "rsi" /\ n = rsi_period + 1 /\ SumDown(cs) = 0
        IN  /\ len' = n
            /\ closes' = cs
            /\ highs' = IF strat = "ma_box_break" THEN Last(Append(highs, b.high), box_period)
                        ELSE highs
            /\ lows' = IF strat = "ma_box_break" THEN Last(Append(lows, b.low), box_period)
                       ELSE lows
            /\ nzd' = IF strat = "ma_cross" THEN NzdNext(nzd, cs, n) ELSE nzd
            /\ crossover' = IF strat = "ma_cross" THEN CrossOver(nzd, cs, n) ELSE crossover
            /\ rsiUp' = IF strat = "rsi"
                        THEN Smma(rsiUp, cs, n, UpDay(last, b.close), SumUp(cs)) ELSE rsiUp
            /\ rsiDn' = IF strat = "rsi"
                        THEN Smma(rsiDn, cs, n, DownDay(last, b.close), SumDown(cs)) ELSE rsiDn
            /\ cash' = br.cash
            /\ position' = br.position
            /\ order' = br.order
            /\ notifs' = q
            /\ lastFill' = br.fill
            /\ intents' = <<>>
            /\ pc' = IF crash THEN "crashed" ELSE AfterNotify(q, n)
            /\ lowSeen' = (lowSeen \/ (strat = "rsi" /\ len >= rsi_period + 1
                                       /\ RsiBelow(rsiUp, rsiDn, oversold)))
            /\ rejected' = (rejected \/ (br.fill # NoFill
                                          /\ Val(br.fill).status # "Completed"))
            /\ eng' = IF eng.track
                       THEN [eng EXCEPT !.trace =
                               Append(@, BarRecord(br.fill, br.cash, br.position, b.close))]
                       ELSE eng
    /\ UNCHANGED <<strat, feed, cfg, params, sorder, in_box, buy_signal_bar, box_val,
                   outSeen, nBuys, stats, store>>

\* one queued status is handed to notify_order
NotifyOrder ==
    /\ pc = "notify"
    /\ sorder' = CASE strat = "ma_cross" -> NotifyOrderMA(Head(notifs), sorder)
                   [] strat = "rsi" -> NotifyOrderRSI(Head(notifs), sorder)
                   [] strat = "ma_box_break" -> NotifyOrderBox(Head(notifs), sorder)
    /\ notifs' = Tail(notifs)
    /\ pc' = AfterNotify(Tail(notifs), len)
    /\ UNCHANGED <<strat, feed, cfg, params, len, closes, highs, lows, nzd, crossover, rsiUp,
                   rsiDn, cash, position, order, in_box, buy_signal_bar, box_val,
                   intents, lastFill, outSeen, nBuys, lowSeen, rejected, eng, stats, store>>

\* what next() of the running strategy changes
Decide ==
    CASE strat = "ma_cross" ->
           LET r == MACrossNext(sorder, position, crossover) IN
           [intents |-> r.intents, sorder |-> r.sorder, in_box |-> in_box,
            buy_signal_bar |-> buy_signal_bar, box_val |-> box_val]
      [] strat = "rsi" ->
           LET r == RSINext(sorder, position, rsiUp, rsiDn) IN
           [intents |-> r.intents, sorder |-> r.sorder, in_box |-> in_box,
            buy_signal_bar |-> buy_signal_bar, box_val |-> box_val]
      [] strat = "ma_box_break" ->
           LET r == BoxNext(position, closes, highs, lows, cash, stake, len, in_box,
                            buy_signal_bar, box_val) IN
           [intents |-> r.intents, sorder |-> sorder, in_box |-> r.in_box,
            buy_signal_bar |-> r.buy_signal_bar, box_val |-> r.box_val]

\* self.buy / self.sell / self.close: the order the broker takes from intent i on bar n
Submit(i, price, n) ==
    Some([side |-> i.side, size |-> i.size, price |-> price, status |-> "Submitted", bar |-> n])

\* next() is called on the current bar
StrategyNext ==
    /\ pc = "next"
    /\ LET r == Decide
           price == closes[Len(closes)]
       IN  /\ intents' = r.intents
           /\ sorder' = r.sorder
           /\ in_box' = r.in_box
           /\ buy_signal_bar' = r.buy_signal_bar
           /\ box_val' = r.box_val
           /\ order' = IF r.intents # <<>> THEN Submit(r.intents[1], price, len) ELSE order
           /\ notifs' = IF r.intents # <<>> THEN <<"Submitted">> ELSE notifs
           /\ nBuys' = IF r.intents # <<>> /\ r.intents[1].side = "buy" THEN nBuys + 1
                       ELSE nBuys
           /\ outSeen' = (strat = "ma_box_break" /\ position # 0
                          /\ (outSeen \/ OutsideBox(price, Val(box_val))))
           /\ eng' = IF eng.track
                      THEN [eng EXCEPT !.trace[Len(eng.trace)].intents = r.intents]
                      ELSE eng
    /\ pc' = "bar"
    /\ UNCHANGED <<strat, feed, cfg, params, len, closes, highs, lows, nzd, crossover, rsiUp,
                   rsiDn, cash, position, lastFill, lowSeen, rejected, stats, store>>

Next == AdvanceBar \/ NotifyOrder \/ StrategyNext

Spec == Init /\ [][Next]_vars

SpecFeed == InitFeed /\ [][Next]_vars

SpecOrd == InitOrd /\ [][Next]_vars

SpecParams == InitParams /\ [][Next]_vars

NextEngine == RunBacktest \/ AdvanceBar \/ NotifyOrder \/ StrategyNext \/ CollectResults

SpecEngine == InitEngine /\ [][NextEngine]_vars

NextStats == AnalyzerNext \/ CollectStats \/ PrintResults

SpecStats == InitStats /\ [][NextStats]_vars

NextData == Download \/ LoadLocal

SpecData == InitData /\ [][NextData]_vars

-----------------------------------------------------------------------------
(* Properties *)

IsBox == strat = "ma_box_break"

\* the current bar is finished: next() has run on it, or it precedes the minimum period
BarDone == pc = "bar" /\ len >= 1

\* next() has run on the current bar
Ran == pc = "bar" /\ len >= MinPeriod(strat)

Emits(side) == intents # <<>> /\ intents[1].side = side

\* the newest close, and the close before it
Close0 == closes[Len(closes)]
Close1 == closes[Len(closes) - 1]

\* the closes of the last ma_slow bars, and of the ma_slow bars before the current one
SlowNow == SubSeq(closes, Len(closes) - ma_slow + 1, Len(closes))
SlowBefore == SubSeq(closes, Len(closes) - ma_slow, Len(closes) - 1)

\* fast MA < mid MA on the current bar
FastBelowMid == ma_mid * Sum(Last(closes, ma_fast)) < ma_fast * Sum(Last(closes, ma_mid))

\* the current close is inside the recorded box
InsideNow == Val(box_val).low <= Close0 /\ Close0 <= Val(box_val).high

\* C1 as stated: held, the close left the box on an earlier bar and is back inside
\* it, fast MA < mid MA: no close is emitted; outside the box with fast MA < mid MA:
\* a close is emitted
C1_Original ==
    (IsBox /\ Ran /\ position > 0 /\ FastBelowMid) =>
        /\ (outSeen /\ InsideNow) => intents = <<>>
        /\ ~InsideNow => intents = <<Sell(position)>>

\* C1 as amended: leaving the box ends the protection for the rest of the holding
\* period.  Held, fast MA < mid MA: a close of the full position is emitted on a bar
\* where the close is back inside the box after having left it, and on a bar where
\* the close is outside the box
C1_ReentryStillExits ==
    (IsBox /\ Ran /\ position > 0 /\ FastBelowMid) =>
        /\ (outSeen /\ InsideNow) => intents = <<Sell(position)>>
        /\ ~InsideNow => intents = <<Sell(position)>>

C1_Witness ==
    /\ IsBox /\ Ran /\ position > 0 /\ FastBelowMid
    /\ outSeen /\ InsideNow
    /\ intents = <<Sell(position)>>

\* C2: on a bar where a position is held, a close of the full position is emitted
\* exactly when some close since entry (this bar's included) was outside the
\* recorded box and fast MA < mid MA on this bar; nothing else is emitted
C2_ExitIffBrokenAndDeathCross ==
    (IsBox /\ Ran /\ position > 0) =>
        /\ intents = <<Sell(position)>> <=> (outSeen /\ FastBelowMid)
        /\ intents # <<>> => intents = <<Sell(position)>>

\* held, every close since entry inside the box, fast MA < mid MA: nothing emitted
C2_Witness ==
    /\ IsBox /\ Ran /\ position > 0
    /\ ~outSeen /\ FastBelowMid /\ intents = <<>>

\* the buy size of the claim: floor(cash * 0.95 / price / lot) * lot
ClaimSize == ((19 * cash) \div (20 * Scale * Close0 * stake)) * stake

\* C3: on a flat bar a buy is emitted exactly when close[t-1] <= slowMA[t-1],
\* close[t] > slowMA[t], slowMA[t] - slowMA[t-1] > 0 and the buy size is positive;
\* nothing else is emitted on a flat bar
C3_EntryIff ==
    (IsBox /\ BarDone /\ position = 0) =>
        /\ Emits("buy") <=>
             /\ Len(closes) = ma_slow + 1
             /\ Close1 * ma_slow <= Sum(SlowBefore)
             /\ Close0 * ma_slow > Sum(SlowNow)
             /\ Sum(SlowNow) > Sum(SlowBefore)
             /\ ClaimSize > 0
        /\ intents # <<>> => Emits("buy")

\* a buy emitted on a bar whose previous close equals the slow MA of that bar
C3_Witness ==
    /\ IsBox /\ BarDone /\ position = 0 /\ Emits("buy")
    /\ Close1 * ma_slow = Sum(SlowBefore)

\* the entry condition of MABOXBreak on the current bar
EntryCond ==
    /\ Len(closes) = ma_slow + 1
    /\ Close1 * ma_slow <= Sum(SlowBefore)
    /\ Close0 * ma_slow > Sum(SlowNow)
    /\ Sum(SlowNow) > Sum(SlowBefore)

C5_FlatMeansReset ==
    (IsBox /\ BarDone /\ position = 0) => (in_box = FALSE /\ buy_signal_bar = None)

\* C6: a buy is emitted only on a flat bar, a sell or close only on a long bar and
\* for no more than is held; the position is never negative, and a buy is filled
\* only into a flat position
C6_NoPyramidingNoShort ==
    /\ position >= 0
    /\ (BarDone /\ Emits("buy")) => position = 0
    /\ (BarDone /\ Emits("sell")) => (position > 0 /\ intents[1].size <= position)
    /\ (lastFill # NoFill /\ Val(lastFill).status = "Completed"
            /\ Val(lastFill).side = "buy") => Val(lastFill).pos0 = 0
    /\ Len(intents) <= 1

\* a sell filled: the position is flat again
C6_Witness ==
    /\ lastFill # NoFill /\ Val(lastFill).status = "Completed"
    /\ Val(lastFill).side = "sell" /\ position = 0

\* C10: cash is never negative; a buy whose cost at the fill price, commission
\* included, exceeds the cash is rejected and leaves cash and position as they
\* were; a filled buy costs exactly its value plus commission
C10_CashNeverNegative ==
    /\ cash >= 0
    /\ lastFill # NoFill =>
         LET f == Val(lastFill) IN
         /\ (f.side = "buy" /\ BuyCost(f.size, f.price, cfg.comm) > f.cash0)
                => f.status = "Margin"
         /\ f.status = "Margin" => (cash = f.cash0 /\ position = f.pos0)
         /\ (f.side = "buy" /\ f.status = "Completed")
                => (cash = f.cash0 - BuyCost(f.size, f.price, cfg.comm)
                    /\ position = f.pos0 + f.size)

\* a buy accepted at its creation price and rejected at the fill price
C10_Witness ==
    /\ lastFill # NoFill
    /\ Val(lastFill).status = "Margin"
    /\ Val(lastFill).cash0 > 0
    /\ notifs = <<"Submitted", "Accepted", "Margin">>
    /\ BuyCost(Val(lastFill).size, Val(lastFill).price, cfg.comm) > Val(lastFill).cash0

\* the closes of the first j bars of the given data
FeedCloses(j) == [i \in 1..j |-> feed.bars[i].close]

IsScenario == strat = "ma_cross" /\ feed = GivenFeed(ScenarioCloses)

\* bar j is the first bar on which the fast MA is above the slow MA
FirstAbove(j) ==
    /\ j >= slow_period /\ MaDiff(FeedCloses(j)) > 0
    /\ \A i \in slow_period..(j - 1) : MaDiff(FeedCloses(i)) <= 0

\* bar j is the first bar after that on which the fast MA is below the slow MA
FirstBelowAfter(j) ==
    /\ j > slow_period /\ MaDiff(FeedCloses(j)) < 0
    /\ \E b \in slow_period..(j - 1) :
          FirstAbove(b) /\ \A i \in (b + 1)..(j - 1) : MaDiff(FeedCloses(i)) >= 0

\* C7 as stated: on the scenario a buy is emitted on the first bar where the fast
\* MA exceeds the slow MA and on no other bar, and a sell on the first later bar
\* where the fast MA is below the slow MA
C7_Original ==
    (IsScenario /\ BarDone) =>
        /\ Emits("buy") <=> FirstAbove(len)
        /\ FirstBelowAfter(len) => Emits("sell")

\* C7 as amended: on the scenario no intent is emitted on any bar.  The fast MA is
\* above the slow MA on the first bar both exist (bar 4), so the crossover
\* indicator never reports an upward cross; it reports the downward cross on
\* the first later bar where the fast MA is below the slow MA, with no position
\* to sell
C7_NoIntentOnScenario ==
    IsScenario =>
        /\ intents = <<>> /\ nBuys = 0 /\ order = None /\ position = 0
        /\ crossover <= 0
        /\ (BarDone /\ FirstAbove(len)) => len = slow_period
        /\ (BarDone /\ FirstBelowAfter(len)) => crossover = -1

\* next() has run on the bar of the downward cross and emitted nothing
C7_Witness ==
    /\ IsScenario /\ Ran /\ FirstBelowAfter(len)
    /\ crossover = -1 /\ intents = <<>>

IsFalling ==
    /\ strat = "rsi" /\ ~feed.free
    /\ \A i \in 1..(Len(feed.bars) - 1) : feed.bars[i].close > feed.bars[i + 1].close

\* RSI exists on the current bar and is below oversold
RsiLow == len >= rsi_period + 1 /\ RsiBelow(rsiUp, rsiDn, oversold)

\* C8 as stated: on a strictly falling series a buy is emitted on the first bar
\* where RSI < oversold and on no other bar, so exactly one over the run
C8_Original ==
    (IsFalling /\ BarDone) =>
        /\ Emits("buy") <=> (RsiLow /\ ~lowSeen)
        /\ ~Emits("sell")
        /\ nBuys = IF RsiLow \/ lowSeen THEN 1 ELSE 0

\* C8 as amended: on a strictly falling series a buy is emitted on the first bar
\* where RSI < oversold and nothing before it; it is the only intent of the run
\* unless the broker rejects its order, and a further buy is emitted only on a
\* bar on which the broker rejected the previous one
C8_OneBuyUnlessRejected ==
    (IsFalling /\ BarDone) =>
        /\ (RsiLow /\ ~lowSeen) => (Emits("buy") /\ nBuys = 1)
        /\ ~(RsiLow \/ lowSeen) => (intents = <<>> /\ nBuys = 0)
        /\ ~Emits("sell")
        /\ ~rejected => nBuys = IF RsiLow \/ lowSeen THEN 1 ELSE 0
        /\ (Emits("buy") /\ lowSeen) =>
              (lastFill # NoFill /\ Val(lastFill).status = "Margin")

\* the one buy was filled and the run went on for a bar without another intent
C8_Witness ==
    /\ IsFalling /\ BarDone /\ ~rejected
    /\ position = SizerStake /\ lastFill = NoFill /\ RsiLow /\ lowSeen
    /\ intents = <<>> /\ nBuys = 1

C11_Deterministic ==
    eng.track =>
        /\ \A i, j \in 1..Len(eng.runs) : eng.runs[i] = eng.runs[j]
        /\ (eng.runs # <<>> /\ pc # "idle") =>
              \A i \in 1..Len(eng.trace) :
                  /\ eng.trace[i].equity = eng.runs[1].trace[i].equity
                  /\ eng.trace[i].fill = eng.runs[1].trace[i].fill

\* two runs completed, with a closed trade in them
C11_Witness ==
    /\ eng.track /\ Len(eng.runs) = 2 /\ pc = "idle"
    /\ eng.runs[2].results.total_trades >= 1
    /\ eng.runs[2].results.win_trades + eng.runs[2].results.loss_trades >= 1

\* the last bar of the data is finished
RunOver == pc = "bar" /\ len = RunLength

\* C12: an order the broker rejects (Margin) leaves cash and position as they
\* were and leaves no open order before next() runs; the run does not stop: after a rejection the
\* run is over only with the last bar, and a step is possible until then; when
\* next() runs after a rejection, self.order is clear
C12_RejectionAbortsOnlyIntent ==
    /\ (lastFill # NoFill /\ Val(lastFill).status = "Margin") =>
          /\ cash = Val(lastFill).cash0 /\ position = Val(lastFill).pos0
          /\ pc \in {"notify", "next"} => order = None
    /\ rejected =>
          /\ pc \in {"bar", "notify", "next"}
          /\ RunOver \/ ENABLED Next
          /\ pc = "next" => ~sorder

\* after a rejection, on a later bar, the strategy emits an intent again
C12_Witness ==
    /\ rejected /\ Ran /\ lastFill = NoFill
    /\ strat \in {"ma_cross", "rsi"} /\ intents # <<>>

\* C13: a call of run_backtest with an empty frame returns the empty dict and
\* changes nothing else: no Cerebro or broker is made, no bar is delivered, no
\* strategy step runs, no summary is made or recorded
C13_EmptyRunDoesNotBegin ==
    [][(eng.track /\ eng'.calls # eng.calls /\ eng'.arg = EmptyFeed) =>
          /\ eng'.ret = EmptyDict
          /\ eng'.cerebro = eng.cerebro /\ eng'.initial_value = eng.initial_value
          /\ eng'.results = eng.results /\ eng'.runs = eng.runs
          /\ eng'.trace = eng.trace
          /\ pc' = "idle"
          /\ UNCHANGED <<feed, len, closes, cash, position, order, notifs, sorder,
                         intents, lastFill, in_box, buy_signal_bar, box_val>>]_vars

\* the first call of run_backtest was given an empty frame
C13_Witness ==
    /\ eng.track /\ eng.calls = 1 /\ eng.arg = EmptyFeed
    /\ eng.ret = EmptyDict /\ ~eng.cerebro /\ len = 0 /\ pc = "idle"

\* C14: with RSI thresholds oversold >= overbought no run starts: no bar is
\* processed and no intent is emitted
C14_InvalidParamsRejected ==
    (strat = "rsi" /\ oversold >= overbought) => (len = 0 /\ intents = <<>>)

\* C15: a download on which the provider failed ends with an error the caller
\* sees, not with the empty frame a download without data returns
C15_FailurePropagates ==
    (store.phase = "on" /\ store.op.name = "download" /\ store.op.outcome = "fail")
        => store.ret.kind = "error"

\* the bars of two frames are equal in values and order, whatever the type the
\* datetime is held in
SameBars(a, b) ==
    /\ Len(a) = Len(b)
    /\ \A i \in 1..Len(a) :
          a[i].datetime[2] = b[i].datetime[2] /\ a[i].close = b[i].close

\* C19: a load under a key a series was saved under returns the bars of the
\* series last saved under that key, whatever was saved under other keys since
C19_RoundTrip ==
    (store.phase = "on" /\ store.op.name = "load" /\ store.op.key \in DOMAIN store.saved)
        => SameBars(store.ret.df, store.saved[store.op.key])

Collected == stats.phase = "on" /\ stats.step \in {"collected", "printed"}

\* the reported max drawdown is a decline from a bar to a later bar and no such
\* decline is larger
IsMaxDecline(curve, dd) ==
    /\ \E i \in 1..Len(curve), j \in 1..Len(curve) :
          i <= j /\ FracEq(dd.num, dd.den, curve[i] - curve[j], curve[i])
    /\ \A i \in 1..Len(curve), j \in 1..Len(curve) :
          (i <= j /\ curve[j] <= curve[i])
              => ~FracLess(dd.num, dd.den, curve[i] - curve[j], curve[i])

\* C16 as stated: for the curve 100, 120, 90, 95, 130, 80 the reported max
\* drawdown is (120 - 80) / 120 * 100
C16_Original ==
    (Collected /\ stats.curve = ClaimCurve)
        => FracEq(stats.results.max_drawdown.num, stats.results.max_drawdown.den, 40, 120)

\* C16: the reported max drawdown is the largest decline from a bar to a later
\* bar as a share of the earlier bar's value; for the curve 100, 120, 90, 95,
\* 130, 80 it is (130 - 80) / 130 * 100
C16_MaxDrawdown ==
    Collected =>
        /\ IsMaxDecline(stats.curve, stats.results.max_drawdown)
        /\ stats.curve = ClaimCurve
              => FracEq(stats.results.max_drawdown.num,
                        stats.results.max_drawdown.den, 50, 130)

C16_Witness == Collected /\ stats.curve = ClaimCurve /\ stats.i = Len(ClaimCurve)

\* C17: the reported win rate is won / total * 100 when total > 0 and 0 when
\* total = 0, and lies in [0, 100]
C17_WinRate ==
    Collected =>
        LET w == stats.results.win_rate
            c == stats.counts
        IN  /\ w.den > 0
            /\ 0 <= w.num /\ w.num <= w.den
            /\ c.total > 0 => FracEq(w.num, w.den, c.won, c.total)
            /\ c.total = 0 => w.num = 0

\* a run without trades has been summarised
C17_Witness ==
    /\ Collected /\ stats.counts.total = 0
    /\ stats.results.total_trades = 0 /\ stats.results.win_rate.num = 0

\* the ratio of the curve is undefined: fewer than two returns, or no variance
\* (the first return is 0, so the returns are all the same when the value never moves)
SharpeUndefined(curve) ==
    \/ Len(curve) < 2
    \/ \A i \in 1..Len(curve) : curve[i] = curve[1]

C20_InBoxLatched ==
    [][IsBox =>
          /\ (~in_box /\ in_box') =>
                (position = 0 /\ intents' # <<>> /\ intents'[1].side = "buy")
          /\ (position > 0 /\ position' > 0 /\ ~in_box) => ~in_box']_vars

\* held, next() has run on a bar whose close is back inside the box after the
\* close of an earlier bar of the holding period was outside it: in_box is false
C20_Witness ==
    /\ IsBox /\ Ran /\ position > 0
    /\ outSeen /\ InsideNow /\ ~in_box

\* the last call of run_backtest on the engine has returned, and returned {}
LastCallEmpty == eng.track /\ pc = "idle" /\ eng.calls > 0 /\ DOMAIN eng.ret = {}

\* C21: when the last call of run_backtest returned an empty result, the stored
\* results are empty and print_results prints that no results are available
C21_ResultsOfLastCall ==
    LastCallEmpty =>
        /\ DOMAIN eng.results = {}
        /\ PrintResultsOf(eng.results) = {"no_results"}

====
